---- MODULE Spec2Model ----
(***************************************************************************)
(* Model of ProjectsService.create (apps/api/src/features/projects/        *)
(* projects.service.ts) together with the two stores it writes: the        *)
(* user's totalProjects counter (through UsersService.update) and the      *)
(* project collection (through the Mongoose model of project.schema.ts).   *)
(*                                                                         *)
(* Every await of create() is one step of a request, so that requests of   *)
(* the same user interleave at the places where the event loop can switch. *)
(*                                                                         *)
(* Collaborator calls that may be rejected: userService.update (both the   *)
(* reservation and the compensation), the project write (validation error, *)
(* duplicate title as the store decides it, any other error) and the final *)
(* populate. findById, populate('tasks') and the save of the flipped       *)
(* parent are taken to resolve.                                            *)
(***************************************************************************)
EXTENDS Integers, Sequences, FiniteSets, TLC

\* ------------------------------------------------------------------ bounds
\* The user's counter starts between (ceiling - Slack) and the ceiling.
Slack == 1
\* Largest number of todos attached to the project that exists initially.
MaxTasks == 1

\* The requests of one run: two, so that they can overlap or follow each other.
Reqs == {1, 2}

\* ------------------------------------------------------------------ constants of the program
MAX_STANDARD_SUBSCRIBER_PROJECTS == 12
MAX_GUEST_SUBSCRIBER_PROJECTS == 3

GUEST_USER == "GUEST_USER"
STANDARD_USER == "STANDARD_USER"
PREMIUM_USER == "PREMIUM_USER"
Tiers == {GUEST_USER, STANDARD_USER, PREMIUM_USER}

ROOT == "ROOT"
SUB_PROJECT == "SUB_PROJECT"
LEAFY == "LEAFY"
NORMAL == "NORMAL"
\* A field that is absent (undefined) on a dto or a document.
NoType == "undefined"
NoId == 0

DefaultMessage == "A new project was successfully created"
AdvisoryMessage == "The root project you are trying to associate this sub-projects have tasks associated at its root. Please, update all these tasks to associate them with either this sub-project or other relevant sub-projects & convert is to normal"
NoMessage == "undefined"

\* ------------------------------------------------------------------ inputs
Titles == {"t1", "t2"}
\* Id 1 is the project that exists initially, id 2 the first one a run creates.
ParentRefs == {NoId, 1, 2}

Dtos ==
    [title : Titles,
     projectType : {NoType, ROOT, SUB_PROJECT},
     rootParentId : ParentRefs,
     subParentId : {NoId, 1}]

NoDto == [title |-> "t1", projectType |-> NoType, rootParentId |-> NoId, subParentId |-> NoId]

\* ------------------------------------------------------------------ errors
\* An error value: its class (what instanceof sees), its name and its code.
BadRequestException(msg) == [cls |-> "BadRequestException", name |-> "BadRequestException", code |-> 0]
PaymentRequiredException == [cls |-> "PaymentRequiredException", name |-> "PaymentRequiredException", code |-> 0]
NotFoundException == [cls |-> "NotFoundException", name |-> "NotFoundException", code |-> 0]
ForbiddenException == [cls |-> "ForbiddenException", name |-> "ForbiddenException", code |-> 0]
\* What Mongoose raises when a document fails schema validation.
ValidationError == [cls |-> "Error", name |-> "ValidationError", code |-> 0]
\* What the driver raises when the unique index on title is violated.
DuplicateKeyError == [cls |-> "Error", name |-> "MongoServerError", code |-> 11000]
\* Any other failure of a collaborator (network, timeout, ...).
OtherError == [cls |-> "Error", name |-> "Error", code |-> 0]
NoError == [cls |-> "none", name |-> "none", code |-> 0]

\* Failures of UsersService.update.
UserFaults == {NotFoundException, ForbiddenException, OtherError}
\* Failures of a project write other than the duplicate key, which the store decides.
WriteFaults == {ValidationError, OtherError}

VARIABLES
    tier,               \* activeUser.baseRole of the one user
    userTotal,          \* the user's stored totalProjects
    projects,           \* the project collection: sequence of documents, _id = index
    tasks,              \* tasks[i]: number of todos whose projectId is i (the virtual)
    pc,                 \* pc[r]: where request r is
    dto,                \* dto[r]: createProjectDto
    totalProjects,      \* totalProjects[r]: the local of line 44
    foundProject,       \* foundProject[r]: the loaded parent document, id 0 when none
    message,            \* message[r]
    error,              \* error[r]: what the try block threw
    outcome,            \* outcome[r]: what create() returned or threw
    userWrites,         \* history: the values request r wrote to the counter
    parentWrites,       \* history: number of saves of an existing document by r
    inserted,           \* history: _id of the document r inserted, 0 when none
    seen,               \* history: the document findById returned to r
    storedAtReturn      \* history: the stored counter when r returned

vars == <<tier, userTotal, projects, tasks, pc, dto, totalProjects, foundProject,
          message, error, outcome, userWrites, parentWrites, inserted, seen,
          storedAtReturn>>

locals == <<dto, totalProjects, foundProject, message>>

NoDoc == [id |-> NoId, title |-> "t1", projectType |-> NoType,
          projectTypeBehavior |-> NoType, rootParentId |-> NoId, subParentId |-> NoId]

\* ------------------------------------------------------------------ pure parts of create()

\* The table with the STANDARD ceiling in both rows.
maxProjectsStandardForAll(role) == MAX_STANDARD_SUBSCRIBER_PROJECTS

\* Lines 90-93: the ceiling table of the two limited tiers.
maxProjects(role) ==
    IF role = GUEST_USER THEN MAX_GUEST_SUBSCRIBER_PROJECTS
    ELSE MAX_STANDARD_SUBSCRIBER_PROJECTS

\* The check with the subParentId operand left out.
IsRootWithRootParentOnly(d) ==
    /\ (d.projectType = NoType \/ d.projectType = ROOT)
    /\ d.rootParentId # NoId

\* Lines 50-54: a root request that names a parent.
IsRootWithParent(d) ==
    /\ (d.projectType = NoType \/ d.projectType = ROOT)
    /\ (d.rootParentId # NoId \/ d.subParentId # NoId)

\* The check accepting a subParentId in place of the rootParentId.
IsSubWithoutAnyParent(d) ==
    /\ d.projectType = SUB_PROJECT
    /\ d.rootParentId = NoId
    /\ d.subParentId = NoId

\* Lines 69-72: a sub-project request without rootParentId.
IsSubWithoutParent(d) ==
    /\ d.projectType = SUB_PROJECT
    /\ d.rootParentId = NoId

\* The check comparing the current total, not the new one, with the ceiling.
ExceedsCeilingOffByOne(role, total) ==
    /\ role \in {GUEST_USER, STANDARD_USER}
    /\ total > maxProjects(role)

\* Lines 83-97: the ceiling check; it does not look at the dto.
ExceedsCeiling(role, total) ==
    /\ role \in {GUEST_USER, STANDARD_USER}
    /\ total + 1 > maxProjects(role)

\* Lines 50-106: what the synchronous head of the try block throws.
Preflight(d, role, total) ==
    IF IsRootWithParent(d) THEN BadRequestException("root with parent")
    ELSE IF IsSubWithoutParent(d) THEN BadRequestException("sub without parent")
    ELSE IF ExceedsCeiling(role, total) THEN PaymentRequiredException
    ELSE NoError

\* Lines 183-234: the branch of the catch block an error takes.
CatchBranch(e) ==
    IF e.cls = "BadRequestException" THEN "BadRequest"
    ELSE IF e.cls = "PaymentRequiredException" THEN "PaymentRequired"
    ELSE IF e.cls = "NotFoundException" THEN "NotFound"
    ELSE IF e.cls = "ForbiddenException" THEN "Forbidden"
    ELSE IF e.name = "Validations" THEN "RollbackBadRequest"
    ELSE IF e.code = 11000 THEN "RollbackConflict"
    ELSE "InternalError"

\* A catch block that rolls back whatever the error is.
CompensatesEveryError(e) == TRUE

\* A catch block that rolls back in its default branch too.
CompensatesUnknownToo(e) ==
    CatchBranch(e) \in {"RollbackBadRequest", "RollbackConflict", "InternalError"}

\* Lines 203-229: the branches that call updateTotalProjects(..., false).
Compensates(e) == CatchBranch(e) \in {"RollbackBadRequest", "RollbackConflict"}

\* What the caller receives from a branch of the catch block.
Thrown(e) ==
    IF CatchBranch(e) = "RollbackBadRequest" THEN "BadRequest"
    ELSE IF CatchBranch(e) = "RollbackConflict" THEN "Conflict"
    ELSE CatchBranch(e)

\* The update ignoring its add flag.
TotalToWriteIgnoringAdd(d, total, add) ==
    IF d.projectType # ROOT THEN -1
    ELSE total + 1

\* Lines 291-295: the counter value updateTotalProjects writes, -1 when it returns early.
TotalToWrite(d, total, add) ==
    IF d.projectType # ROOT THEN -1
    ELSE total + (IF add THEN 1 ELSE 0)

\* project.schema.ts: the document an insert of the dto stores (projectType defaults to ROOT).
NewDocument(d) ==
    [title |-> d.title,
     projectType |-> IF d.projectType = NoType THEN ROOT ELSE d.projectType,
     projectTypeBehavior |-> NoType,
     rootParentId |-> d.rootParentId,
     subParentId |-> d.subParentId]

\* The reused handle keeping the parent's projectType.
ReusedDocumentKeepingType(f, d) ==
    [title |-> d.title,
     projectType |-> f.projectType,
     projectTypeBehavior |-> f.projectTypeBehavior,
     rootParentId |-> IF d.rootParentId = NoId THEN f.rootParentId ELSE d.rootParentId,
     subParentId |-> IF d.subParentId = NoId THEN f.subParentId ELSE d.subParentId]

\* Lines 157-168: the loaded parent overwritten by the dto's entries, identity removed.
ReusedDocument(f, d) ==
    [title |-> d.title,
     projectType |-> IF d.projectType = NoType THEN f.projectType ELSE d.projectType,
     projectTypeBehavior |-> f.projectTypeBehavior,
     rootParentId |-> IF d.rootParentId = NoId THEN f.rootParentId ELSE d.rootParentId,
     subParentId |-> IF d.subParentId = NoId THEN f.subParentId ELSE d.subParentId]

\* The test finding no task whatever the count.
HasTasksNever(n) == FALSE

\* The test of the handle instead of its task count.
HasTasksAlways(n) == TRUE

\* The test passing a single task.
HasTasksMoreThanOne(n) == n > 1

\* Line 138: the populated task count, tested for truthiness.
HasTasks(n) == n # 0

\* Line 176: message || default.
ResponseMessage(m) == IF m = NoMessage THEN DefaultMessage ELSE m

\* Lines 162-166: the handle after its identity was removed.
InMemory(doc) ==
    [id |-> NoId, title |-> doc.title, projectType |-> doc.projectType,
     projectTypeBehavior |-> doc.projectTypeBehavior,
     rootParentId |-> doc.rootParentId, subParentId |-> doc.subParentId]

\* A save of the handle that keeps its _id: an update of the loaded document.
SaveInPlace(store, f, doc) == [store EXCEPT ![f.id] = doc]

\* Lines 162-169: the handle has no _id and isNew set, so save() inserts it.
SaveAsNew(store, f, doc) == Append(store, doc)

\* The unique index on title (project.schema.ts lines 14-17).
TitleTaken(t) == \E i \in DOMAIN projects : projects[i].title = t

\* findById: the stored document with its _id, or none.
FindById(id) ==
    IF id \in DOMAIN projects
    THEN [id |-> id, title |-> projects[id].title, projectType |-> projects[id].projectType,
          projectTypeBehavior |-> projects[id].projectTypeBehavior,
          rootParentId |-> projects[id].rootParentId, subParentId |-> projects[id].subParentId]
    ELSE NoDoc

\* ------------------------------------------------------------------ initial state
InitTotals(role) ==
    IF role = GUEST_USER
    THEN (MAX_GUEST_SUBSCRIBER_PROJECTS - Slack)..MAX_GUEST_SUBSCRIBER_PROJECTS
    ELSE (MAX_STANDARD_SUBSCRIBER_PROJECTS - Slack)..MAX_STANDARD_SUBSCRIBER_PROJECTS

\* The project that exists before the run: a root project, LEAFY or NORMAL.
InitialProject(b) ==
    [title |-> "t0", projectType |-> ROOT, projectTypeBehavior |-> b,
     rootParentId |-> NoId, subParentId |-> NoId]

Init ==
    /\ tier \in Tiers
    /\ userTotal \in InitTotals(tier)
    /\ \E b \in {LEAFY, NORMAL} : projects = <<InitialProject(b)>>
    /\ \E n \in 0..MaxTasks : tasks = <<n>>
    /\ pc = [r \in Reqs |-> "idle"]
    /\ dto = [r \in Reqs |-> NoDto]
    /\ totalProjects = [r \in Reqs |-> 0]
    /\ foundProject = [r \in Reqs |-> NoDoc]
    /\ message = [r \in Reqs |-> NoMessage]
    /\ error = [r \in Reqs |-> NoError]
    /\ outcome = [r \in Reqs |-> "none"]
    /\ userWrites = [r \in Reqs |-> <<>>]
    /\ parentWrites = [r \in Reqs |-> 0]
    /\ inserted = [r \in Reqs |-> NoId]
    /\ seen = [r \in Reqs |-> NoDoc]
    /\ storedAtReturn = [r \in Reqs |-> -1]

\* ------------------------------------------------------------------ steps of create()

\* The catch block for an error that needs no await: create() throws at once.
\* For an error of a compensating branch the request goes on to Compensate.
Fail(r, e) ==
    /\ error' = [error EXCEPT ![r] = e]
    /\ IF Compensates(e)
       THEN /\ pc' = [pc EXCEPT ![r] = "compensate"]
            /\ UNCHANGED <<outcome, storedAtReturn>>
       ELSE /\ pc' = [pc EXCEPT ![r] = "done"]
            /\ outcome' = [outcome EXCEPT ![r] = Thrown(e)]
            /\ storedAtReturn' = [storedAtReturn EXCEPT ![r] = userTotal']

\* activeUser.totalProjects of an arriving request: the user's current count.
ActiveUserTotal == userTotal

\* Lines 43-106: the request arrives and the synchronous head of create() runs.
Request(r, d) ==
    /\ pc[r] = "idle"
    /\ (IF r = 1 THEN TRUE ELSE pc[r - 1] # "idle")
    /\ dto' = [dto EXCEPT ![r] = d]
    /\ totalProjects' = [totalProjects EXCEPT ![r] = ActiveUserTotal]
    /\ UNCHANGED <<tier, userTotal, projects, tasks, foundProject, message>>
    /\ UNCHANGED <<userWrites, parentWrites, inserted, seen>>
    /\ LET e == Preflight(d, tier, ActiveUserTotal)
       IN IF e = NoError
          THEN /\ pc' = [pc EXCEPT ![r] = "reserve"]
               /\ UNCHANGED <<error, outcome, storedAtReturn>>
          ELSE Fail(r, e)

\* Lines 107-112 and 285-302: updateTotalProjects(totalProjects, activeUser, dto).
ReserveQuota(r) ==
    /\ pc[r] = "reserve"
    /\ UNCHANGED <<tier, projects, tasks, locals, parentWrites, inserted, seen>>
    /\ LET v == TotalToWrite(dto[r], totalProjects[r], TRUE)
       IN \/ /\ userTotal' = IF v = -1 THEN userTotal ELSE v
             /\ userWrites' = [userWrites EXCEPT ![r] = IF v = -1 THEN @ ELSE Append(@, v)]
             /\ pc' = [pc EXCEPT ![r] =
                      IF dto[r].rootParentId # NoId THEN "findParent" ELSE "write"]
             /\ UNCHANGED <<error, outcome, storedAtReturn>>
          \/ /\ v # -1
             /\ UNCHANGED <<userTotal, userWrites>>
             /\ \E e \in UserFaults : Fail(r, e)

\* Lines 123-133: findById(rootParentId); only a found LEAFY parent is looked at further.
FindParent(r) ==
    /\ pc[r] = "findParent"
    /\ UNCHANGED <<tier, userTotal, projects, tasks, dto, totalProjects, message>>
    /\ UNCHANGED <<error, outcome, userWrites, parentWrites, inserted, storedAtReturn>>
    /\ LET f == FindById(dto[r].rootParentId)
       IN /\ foundProject' = [foundProject EXCEPT ![r] = f]
          /\ seen' = [seen EXCEPT ![r] = f]
          /\ pc' = [pc EXCEPT ![r] =
                   IF f.id # NoId /\ f.projectTypeBehavior = LEAFY
                   THEN "resolveLeafy" ELSE "write"]

\* Lines 134-144: populate('tasks') on the LEAFY parent, then either the
\* advisory message or the flip to NORMAL and its save.
ResolveLeafy(r) ==
    /\ pc[r] = "resolveLeafy"
    /\ UNCHANGED <<tier, userTotal, tasks, dto, totalProjects>>
    /\ UNCHANGED <<error, outcome, userWrites, inserted, seen, storedAtReturn>>
    /\ pc' = [pc EXCEPT ![r] = "write"]
    /\ IF HasTasks(tasks[foundProject[r].id])
       THEN /\ message' = [message EXCEPT ![r] = AdvisoryMessage]
            /\ UNCHANGED <<projects, foundProject, parentWrites>>
       ELSE /\ foundProject' = [foundProject EXCEPT ![r].projectTypeBehavior = NORMAL]
            /\ projects' = [projects EXCEPT ![foundProject[r].id].projectTypeBehavior = NORMAL]
            /\ parentWrites' = [parentWrites EXCEPT ![r] = @ + 1]
            /\ UNCHANGED message

\* Lines 148-170: projectModel.create(dto), or the save of the reused handle
\* as a new document.
WriteProject(r) ==
    /\ pc[r] = "write"
    /\ UNCHANGED <<tier, userTotal, dto, totalProjects, message>>
    /\ UNCHANGED <<userWrites, parentWrites, seen>>
    /\ LET doc == IF foundProject[r].id = NoId
                  THEN NewDocument(dto[r])
                  ELSE ReusedDocument(foundProject[r], dto[r])
           mem == IF foundProject[r].id = NoId THEN NoDoc ELSE InMemory(doc)
       IN /\ foundProject' = [foundProject EXCEPT ![r] = mem]
          /\ \/ /\ ~TitleTaken(doc.title)
                /\ projects' = IF foundProject[r].id = NoId
                               THEN Append(projects, doc)
                               ELSE SaveAsNew(projects, foundProject[r], doc)
                /\ tasks' = Append(tasks, 0)
                /\ inserted' = [inserted EXCEPT ![r] = Len(projects) + 1]
                /\ pc' = [pc EXCEPT ![r] = "populate"]
                /\ UNCHANGED <<error, outcome, storedAtReturn>>
             \/ /\ TitleTaken(doc.title)
                /\ UNCHANGED <<projects, tasks, inserted>>
                /\ Fail(r, DuplicateKeyError)
             \/ /\ UNCHANGED <<projects, tasks, inserted>>
                /\ \E e \in WriteFaults : Fail(r, e)

\* Lines 172-178: populate(populateConfigs()) and the success result.
Populate(r) ==
    /\ pc[r] = "populate"
    /\ UNCHANGED <<tier, userTotal, projects, tasks, locals>>
    /\ UNCHANGED <<userWrites, parentWrites, inserted, seen>>
    /\ \/ /\ pc' = [pc EXCEPT ![r] = "done"]
          /\ outcome' = [outcome EXCEPT ![r] = "Success"]
          /\ storedAtReturn' = [storedAtReturn EXCEPT ![r] = userTotal]
          /\ UNCHANGED error
       \/ Fail(r, OtherError)

\* Lines 203-229: updateTotalProjects(totalProjects, activeUser, dto, false)
\* inside the catch block, then the typed error; a failure of the update
\* leaves the catch block as it is.
Compensate(r) ==
    /\ pc[r] = "compensate"
    /\ UNCHANGED <<tier, projects, tasks, locals, parentWrites, inserted, seen>>
    /\ pc' = [pc EXCEPT ![r] = "done"]
    /\ LET v == TotalToWrite(dto[r], totalProjects[r], FALSE)
       IN \/ /\ userTotal' = IF v = -1 THEN userTotal ELSE v
             /\ userWrites' = [userWrites EXCEPT ![r] = IF v = -1 THEN @ ELSE Append(@, v)]
             /\ outcome' = [outcome EXCEPT ![r] = Thrown(error[r])]
             /\ UNCHANGED error
          \/ /\ v # -1
             /\ UNCHANGED <<userTotal, userWrites>>
             /\ outcome' = [outcome EXCEPT ![r] = "Uncaught"]
             /\ UNCHANGED error
    /\ storedAtReturn' = [storedAtReturn EXCEPT ![r] = userTotal']

Next ==
    \E r \in Reqs :
        \/ \E d \in Dtos : Request(r, d)
        \/ ReserveQuota(r)
        \/ FindParent(r)
        \/ ResolveLeafy(r)
        \/ WriteProject(r)
        \/ Populate(r)
        \/ Compensate(r)

Spec == Init /\ [][Next]_vars

\* The same requests served one at a time: a request arrives only when no
\* other request is under way.
NoneUnderWay == \A q \in Reqs : pc[q] \in {"idle", "done"}

NextSeq ==
    \E r \in Reqs :
        \/ \E d \in Dtos : NoneUnderWay /\ Request(r, d)
        \/ ReserveQuota(r)
        \/ FindParent(r)
        \/ ResolveLeafy(r)
        \/ WriteProject(r)
        \/ Populate(r)
        \/ Compensate(r)

SeqSpec == Init /\ [][NextSeq]_vars

\* ------------------------------------------------------------------ claims

Done(r) == pc[r] = "done"
Arrived(r) == pc[r] # "idle"
\* Request r wrote neither the counter nor the project collection.
WroteNothing(r) == userWrites[r] = <<>> /\ inserted[r] = NoId /\ parentWrites[r] = 0
\* The request names no parent, so the structural checks let it pass as a root request.
PlainRoot(d) == d.projectType = ROOT /\ d.rootParentId = NoId /\ d.subParentId = NoId
\* The compensating counter write inside the catch block was itself rejected.
CompensationRejected(r) == outcome[r] = "Uncaught"

C2_AtCeilingRejected ==
    \A r \in Reqs :
        (/\ Arrived(r)
         /\ PlainRoot(dto[r])
         /\ \/ tier = GUEST_USER /\ totalProjects[r] >= 3
            \/ tier = STANDARD_USER /\ totalProjects[r] >= 12)
        => /\ Done(r)
           /\ outcome[r] = "PaymentRequired"
           /\ WroteNothing(r)

C2_Witness ==
    \E r \in Reqs :
        /\ Done(r)
        /\ PlainRoot(dto[r])
        /\ tier = GUEST_USER
        /\ totalProjects[r] = 3
        /\ outcome[r] = "PaymentRequired"
        /\ WroteNothing(r)
        /\ userTotal = 3

\* C3: with requests served one at a time, the stored counter of a GUEST or
\* STANDARD user never exceeds the ceiling of the tier (3 or 12); a ROOT
\* request of a STANDARD user at 11 that succeeds leaves the counter at 12,
\* and a ROOT request that reads 12 is rejected with PaymentRequired (it
\* never reaches the write that would report a duplicate title).
C3_CounterWithinCeiling ==
    /\ tier = GUEST_USER => userTotal <= 3
    /\ tier = STANDARD_USER => userTotal <= 12
    /\ \A r \in Reqs :
        (Done(r) /\ tier = STANDARD_USER /\ PlainRoot(dto[r]))
        => /\ (totalProjects[r] = 11 /\ outcome[r] = "Success")
                => (userWrites[r] = <<12>> /\ storedAtReturn[r] = 12)
           /\ totalProjects[r] = 12 => outcome[r] = "PaymentRequired"

C3_Witness ==
    /\ tier = STANDARD_USER
    /\ Done(1) /\ Done(2)
    /\ PlainRoot(dto[1])
    /\ dto[2] = dto[1]
    /\ totalProjects[1] = 11
    /\ outcome[1] = "Success"
    /\ totalProjects[2] = 12
    /\ outcome[2] = "PaymentRequired"
    /\ userTotal = 12

\* C4: a request whose projectType is SUB_PROJECT is never rejected with
\* PaymentRequired, whatever the tier and the counter, and it does not write
\* the counter.
C4_NonRootNeverQuotaRejected ==
    \A r \in Reqs :
        (Done(r) /\ dto[r].projectType = SUB_PROJECT)
        => /\ outcome[r] # "PaymentRequired"
           /\ userWrites[r] = <<>>

\* C5: every successful creation of a root project, with projectType ROOT
\* or with projectType omitted, wrote the counter once, as the value the
\* request started with plus one.
C5_RootCreationCounts ==
    \A r \in Reqs :
        (/\ Done(r)
         /\ outcome[r] = "Success"
         /\ dto[r].projectType \in {NoType, ROOT}
         /\ projects[inserted[r]].projectType = ROOT)
        => userWrites[r] = <<totalProjects[r] + 1>>

\* C6: a request with projectType unset or ROOT that sets rootParentId or
\* subParentId is rejected with BadRequest and writes neither the counter
\* nor the project collection.
C6_RootWithParentRejected ==
    \A r \in Reqs :
        (/\ Arrived(r)
         /\ dto[r].projectType \in {NoType, ROOT}
         /\ (dto[r].rootParentId # NoId \/ dto[r].subParentId # NoId))
        => /\ Done(r)
           /\ outcome[r] = "BadRequest"
           /\ WroteNothing(r)

C6_Witness ==
    \E r \in Reqs :
        /\ Done(r)
        /\ dto[r].projectType = NoType
        /\ dto[r].rootParentId = NoId
        /\ dto[r].subParentId # NoId
        /\ outcome[r] = "BadRequest"
        /\ WroteNothing(r)

\* C7: a request with projectType SUB_PROJECT and no rootParentId, with or
\* without a subParentId, is rejected with BadRequest before the quota is
\* looked at, and writes neither the counter nor the project collection.
C7_SubWithoutParentRejected ==
    \A r \in Reqs :
        (/\ Arrived(r)
         /\ dto[r].projectType = SUB_PROJECT
         /\ dto[r].rootParentId = NoId)
        => /\ Done(r)
           /\ outcome[r] = "BadRequest"
           /\ WroteNothing(r)

C7_Witness ==
    \E r \in Reqs :
        /\ Done(r)
        /\ dto[r].projectType = SUB_PROJECT
        /\ dto[r].rootParentId = NoId
        /\ dto[r].subParentId # NoId
        /\ tier = GUEST_USER
        /\ totalProjects[r] = 3
        /\ outcome[r] = "BadRequest"
        /\ WroteNothing(r)

\* C8: when a sub-project is created whose rootParentId found a LEAFY
\* project with no task, the request saved that parent exactly once, the
\* parent is stored as NORMAL, and the response carries the default message.
C8_LeafyWithoutTasksFlips ==
    \A r \in Reqs :
        (/\ Done(r)
         /\ outcome[r] = "Success"
         /\ seen[r].id # NoId
         /\ seen[r].projectTypeBehavior = LEAFY
         /\ tasks[seen[r].id] = 0)
        => /\ parentWrites[r] = 1
           /\ projects[seen[r].id].projectTypeBehavior = NORMAL
           /\ ResponseMessage(message[r]) = DefaultMessage

C8_Witness ==
    \E r \in Reqs :
        /\ Done(r)
        /\ outcome[r] = "Success"
        /\ dto[r].projectType = SUB_PROJECT
        /\ seen[r].id = 1
        /\ seen[r].projectTypeBehavior = LEAFY
        /\ tasks[1] = 0
        /\ parentWrites[r] = 1
        /\ projects[1].projectTypeBehavior = NORMAL
        /\ inserted[r] # NoId

\* C9: when a sub-project is created whose rootParentId found a LEAFY
\* project with at least one task, the request saved no existing document,
\* the parent is stored under its id exactly as it was found (still LEAFY),
\* and the response carries the advisory message.
C9_LeafyWithTasksUntouched ==
    \A r \in Reqs :
        (/\ Done(r)
         /\ outcome[r] = "Success"
         /\ seen[r].id # NoId
         /\ seen[r].projectTypeBehavior = LEAFY
         /\ tasks[seen[r].id] >= 1)
        => /\ parentWrites[r] = 0
           /\ FindById(seen[r].id) = seen[r]
           /\ ResponseMessage(message[r]) = AdvisoryMessage

C9_Witness ==
    \E r \in Reqs :
        /\ Done(r)
        /\ outcome[r] = "Success"
        /\ dto[r].projectType = SUB_PROJECT
        /\ seen[r].id = 1
        /\ seen[r].projectTypeBehavior = LEAFY
        /\ tasks[1] >= 1
        /\ projects[1].projectTypeBehavior = LEAFY
        /\ message[r] = AdvisoryMessage
        /\ inserted[r] # NoId

\* C10: when the project write of a ROOT request fails with a validation
\* error of the persistence layer after the quota was reserved, create()
\* restores the counter to the value the request started with and rejects
\* with BadRequest.
C10_ValidationRollsBack ==
    \A r \in Reqs :
        (/\ Done(r)
         /\ dto[r].projectType = ROOT
         /\ error[r] = ValidationError
         /\ ~CompensationRejected(r))
        => /\ storedAtReturn[r] = totalProjects[r]
           /\ outcome[r] = "BadRequest"

\* The root projects the user owns: those counted before the run (the first
\* request to arrive read that count) and those the ROOT requests inserted.
RootsInserted == {r \in Reqs : inserted[r] # NoId /\ dto[r].projectType = ROOT}
RootsOwned == totalProjects[1] + Cardinality(RootsInserted)
Limited == tier \in {GUEST_USER, STANDARD_USER}
Ceiling == IF tier = GUEST_USER THEN 3 ELSE 12

\* C11: two overlapping ROOT requests of a GUEST or STANDARD user can read
\* the same totalProjects, both pass the ceiling check and both insert, so
\* that the user owns more root projects than the ceiling (C11_Witness).
\* The overshoot has no other source: it needs every request to have
\* inserted after reading the same count, and it is at most the number of
\* requests minus one.
C11_OvershootOnlyByOverlap ==
    (/\ Limited
     /\ \A r \in Reqs : Arrived(r) => dto[r].projectType = ROOT
     /\ RootsOwned > Ceiling)
    => /\ \A r \in Reqs : inserted[r] # NoId
       /\ \A r, q \in Reqs : totalProjects[r] = totalProjects[q]
       /\ RootsOwned <= Ceiling + Cardinality(Reqs) - 1

C11_Witness ==
    /\ tier = GUEST_USER
    /\ \A r \in Reqs : Done(r) /\ PlainRoot(dto[r]) /\ outcome[r] = "Success"
    /\ totalProjects[1] = 2
    /\ totalProjects[2] = 2
    /\ userTotal = 3
    /\ RootsOwned = 4

\* C12 as stated: an unclassified failure after the quota was reserved for a
\* ROOT request ends in InternalError without a compensating write, and no
\* project was created.
C12_UnknownFailureNoProject ==
    \A r \in Reqs :
        (/\ Done(r)
         /\ dto[r].projectType = ROOT
         /\ userWrites[r] # <<>>
         /\ error[r] = OtherError)
        => /\ outcome[r] = "InternalError"
           /\ userWrites[r] = <<totalProjects[r] + 1>>
           /\ inserted[r] = NoId

\* C12 amended: an unclassified failure after the quota was reserved for a
\* ROOT request ends in InternalError and the request makes no compensating
\* write: its only counter write is the reservation. Served one at a time,
\* the stored counter at the return is the pre-request value plus one. A
\* project exists only when the failure is that of the final populate.
C12_UnknownFailureKeepsReservation ==
    \A r \in Reqs :
        (/\ Done(r)
         /\ dto[r].projectType = ROOT
         /\ userWrites[r] # <<>>
         /\ error[r] = OtherError)
        => /\ outcome[r] = "InternalError"
           /\ userWrites[r] = <<totalProjects[r] + 1>>
           /\ storedAtReturn[r] = totalProjects[r] + 1
           /\ inserted[r] # NoId => projects[inserted[r]].title = dto[r].title

C12_Witness ==
    \E r \in Reqs :
        /\ Done(r)
        /\ dto[r].projectType = ROOT
        /\ error[r] = OtherError
        /\ outcome[r] = "InternalError"
        /\ inserted[r] = NoId
        /\ userWrites[r] = <<totalProjects[r] + 1>>
        /\ userTotal = totalProjects[r] + 1

\* The documents the requests of the run inserted.
Inserters == {r \in Reqs : inserted[r] # NoId}
\* Document a is document b, but for a flip of LEAFY to NORMAL.
SameButFlip(a, b) ==
    /\ a.title = b.title
    /\ a.projectType = b.projectType
    /\ a.rootParentId = b.rootParentId
    /\ a.subParentId = b.subParentId
    /\ \/ a.projectTypeBehavior = b.projectTypeBehavior
       \/ a.projectTypeBehavior = NORMAL /\ b.projectTypeBehavior = LEAFY

\* C13: when the rootParentId lookup found a project and the creation
\* succeeded, the result is a new document under a new id (the collection
\* grew by one document per insert), made of the request's fields, and the
\* looked-up parent is still stored under its id with its fields as found
\* but for a possible flip of LEAFY to NORMAL.
C13_ReuseInsertsNewDocument ==
    /\ Len(projects) = 1 + Cardinality(Inserters)
    /\ \A r \in Reqs :
        (Done(r) /\ outcome[r] = "Success" /\ seen[r].id # NoId)
        => /\ inserted[r] \in DOMAIN projects
           /\ inserted[r] # seen[r].id
           /\ \A q \in Reqs : q # r => inserted[q] # inserted[r]
           /\ projects[inserted[r]].title = dto[r].title
           /\ projects[inserted[r]].rootParentId = dto[r].rootParentId
           /\ SameButFlip(projects[seen[r].id], seen[r])

C13_Witness ==
    \E r \in Reqs :
        /\ Done(r)
        /\ outcome[r] = "Success"
        /\ seen[r].id = 1
        /\ inserted[r] = 2
        /\ Len(projects) = 2
        /\ projects[1].title = "t0"
        /\ projects[2].title = dto[r].title
        /\ projects[2].projectType = SUB_PROJECT

\* The success result and the typed errors of the taxonomy.
TypedResults ==
    {"Success", "BadRequest", "PaymentRequired", "NotFound", "Forbidden",
     "Conflict", "InternalError"}

\* C14: every invocation of create() ends with the success result or with
\* one of the typed errors; no raw error of a collaborator reaches the
\* caller, also when the compensating counter write fails in the catch block.
C14_OnlyTypedResults ==
    \A r \in Reqs : Done(r) => outcome[r] \in TypedResults

\* The counter writes of request r so far are the reservation, then at most
\* the compensation.
ReservedFirst(r) ==
    /\ Len(userWrites[r]) <= 2
    /\ Len(userWrites[r]) >= 1 => userWrites[r][1] = totalProjects[r] + 1
    /\ Len(userWrites[r]) = 2 => userWrites[r][2] = totalProjects[r]
\* Request r is past the quota reservation step: a ROOT request has written
\* its reservation and nothing else to the counter.
PastReservation(r) == dto[r].projectType = ROOT => userWrites[r] = <<totalProjects[r] + 1>>
\* Request r was turned away by the preflight or by the ceiling check.
TurnedAway(r) ==
    Arrived(r) /\ Preflight(dto[r], tier, totalProjects[r]) # NoError

\* C15: within one request the steps come in the order validating, quota
\* reserved, parent resolved, writing, populating, done. Before the
\* reservation step nothing is written or looked up; the parent lookup and
\* the flip come after the reservation and before the insert; the insert
\* comes before the populate and the success result; a request turned away
\* by the preflight or the ceiling check writes nothing; a compensating
\* counter write is the second counter write of its request, after the
\* reservation.
C15_StepOrder ==
    \A r \in Reqs :
        /\ pc[r] \in {"idle", "reserve"} => (WroteNothing(r) /\ seen[r] = NoDoc)
        /\ pc[r] = "findParent"
              => (seen[r] = NoDoc /\ parentWrites[r] = 0 /\ PastReservation(r))
        /\ pc[r] = "resolveLeafy"
              => (seen[r].id # NoId /\ parentWrites[r] = 0 /\ PastReservation(r))
        /\ pc[r] \in {"findParent", "resolveLeafy", "write"} => inserted[r] = NoId
        /\ pc[r] = "write" => PastReservation(r)
        /\ pc[r] = "populate" => (inserted[r] # NoId /\ PastReservation(r))
        /\ pc[r] = "compensate" => PastReservation(r)
        /\ (Done(r) /\ outcome[r] = "Success") => inserted[r] # NoId
        /\ parentWrites[r] > 0 => seen[r].id # NoId
        /\ TurnedAway(r) => (Done(r) /\ WroteNothing(r) /\ seen[r] = NoDoc)
        /\ ReservedFirst(r)

C15_Witness ==
    /\ Done(1) /\ Done(2)
    /\ outcome[1] = "Success"
    /\ seen[1].id # NoId
    /\ parentWrites[1] = 1
    /\ inserted[1] # NoId
    /\ dto[2].projectType = ROOT
    /\ outcome[2] = "Conflict"
    /\ userWrites[2] = <<totalProjects[2] + 1, totalProjects[2]>>
    /\ inserted[2] = NoId

\* C16: every stored project satisfies the structural invariant: a ROOT
\* project carries neither rootParentId nor subParentId and a SUB_PROJECT
\* carries a rootParentId, the documents of the reuse path (which inherit
\* the parent's fields the request leaves out) included.
C16_StructuralInvariant ==
    \A i \in DOMAIN projects :
        /\ projects[i].projectType \in {ROOT, SUB_PROJECT}
        /\ projects[i].projectType = ROOT
              => (projects[i].rootParentId = NoId /\ projects[i].subParentId = NoId)
        /\ projects[i].projectType = SUB_PROJECT => projects[i].rootParentId # NoId

C16_Witness ==
    \E r \in Reqs :
        /\ Done(r)
        /\ outcome[r] = "Success"
        /\ seen[r].id # NoId
        /\ dto[r].subParentId = NoId
        /\ projects[inserted[r]].projectType = SUB_PROJECT
        /\ projects[inserted[r]].rootParentId = dto[r].rootParentId
        /\ projects[inserted[r]].subParentId = seen[r].subParentId
        /\ seen[r].subParentId # NoId

\* The requests that created a project and carried projectType = ROOT.
RootSuccesses == {r \in Reqs : Done(r) /\ outcome[r] = "Success" /\ dto[r].projectType = ROOT}

\* C17: with requests served one at a time, each ending in success,
\* BadRequest, PaymentRequired or Conflict, the stored totalProjects after
\* every request is the initial value plus the number of successful
\* creations whose request carried projectType = ROOT.
C17_CounterCountsRootSuccesses ==
    (/\ NoneUnderWay
     /\ Arrived(1)
     /\ \A r \in Reqs :
            Arrived(r) => outcome[r] \in {"Success", "BadRequest", "PaymentRequired", "Conflict"})
    => userTotal = totalProjects[1] + Cardinality(RootSuccesses)

C17_Witness ==
    /\ Done(1) /\ Done(2)
    /\ PlainRoot(dto[1]) /\ outcome[1] = "Success"
    /\ PlainRoot(dto[2]) /\ outcome[2] = "Conflict"
    /\ totalProjects[2] = totalProjects[1] + 1
    /\ userWrites[2] = <<totalProjects[1] + 2, totalProjects[1] + 1>>
    /\ userTotal = totalProjects[1] + 1

\* C18: when two ROOT requests of the user overlap, one succeeding and the
\* other failing with the duplicate-title conflict, the stored totalProjects
\* after both have returned is the value before the requests plus one.
C18_OverlapKeepsReservation ==
    (/\ Done(1) /\ Done(2)
     /\ dto[1].projectType = ROOT /\ dto[2].projectType = ROOT
     /\ {outcome[1], outcome[2]} = {"Success", "Conflict"})
    => userTotal = totalProjects[1] + 1

\* Nothing has arrived after request r.
Latest(r) == \A q \in Reqs : q > r => pc[q] = "idle"

\* C19: with requests served one at a time, a request rejected with
\* BadRequest, PaymentRequired, Conflict or InternalError leaves the project
\* store as it was: no document was inserted and the parent it looked up is
\* stored as it was found (a LEAFY parent is LEAFY after the return).
C19_RejectedLeavesStore ==
    \A r \in Reqs :
        (/\ Done(r)
         /\ Latest(r)
         /\ outcome[r] \in {"BadRequest", "PaymentRequired", "Conflict", "InternalError"})
        => /\ inserted[r] = NoId
           /\ seen[r].id # NoId => FindById(seen[r].id) = seen[r]

\* Some request standing at the flip references project i.
FlipStep(i) ==
    \E r \in Reqs :
        /\ pc[r] = "resolveLeafy"
        /\ pc'[r] = "write"
        /\ dto[r].rootParentId = i

\* C20: the document stored under an existing id changes only in its
\* projectTypeBehavior, only from LEAFY to NORMAL, and only in the step of a
\* request whose rootParentId is that id while the project has no task; a
\* request that found its parent NORMAL writes no parent.
C20_BehaviorOnlyLeafyToNormal ==
    /\ [](\A r \in Reqs : seen[r].projectTypeBehavior = NORMAL => parentWrites[r] = 0)
    /\ [][\A i \in DOMAIN projects :
            projects'[i] # projects[i]
            => /\ projects[i].projectTypeBehavior = LEAFY
               /\ projects'[i] = [projects[i] EXCEPT !.projectTypeBehavior = NORMAL]
               /\ tasks[i] = 0
               /\ FlipStep(i)]_vars

C20_Witness ==
    /\ Done(1) /\ Done(2)
    /\ seen[1].projectTypeBehavior = LEAFY
    /\ parentWrites[1] = 1
    /\ tasks[seen[1].id] = 0
    /\ projects[seen[1].id].projectTypeBehavior = NORMAL
    /\ seen[2].id = seen[1].id
    /\ seen[2].projectTypeBehavior = NORMAL
    /\ parentWrites[2] = 0
    /\ outcome[2] = "Success"
====
